---- MODULE Spec2Model ----
(***************************************************************************)
(* Structo: the floor-beam page (src/floor_beams.py) and the purlin page   *)
(* (src/purlins.py) of the steel member design application, as a state     *)
(* machine over the Streamlit session state.                               *)
(*                                                                         *)
(* The pages call utils.calculations (convert_to_kn, calculate_moment,     *)
(* calculate_shear_force, calculate_wind_load, calculate_critical_moment,  *)
(* select_optimal_section) and utils.constants, which are not among the    *)
(* source files; those operators are modelled from spec.md and are marked  *)
(* "spec.md" in their comments.  Everything else is translated from the    *)
(* two page scripts.                                                       *)
(*                                                                         *)
(* Python floats are modelled as exact rationals <<n, d>> (d > 0, lowest   *)
(* terms); floating-point rounding is not modelled.                        *)
(***************************************************************************)
EXTENDS Integers, Sequences, FiniteSets, TLC

VARIABLES
    member,             \* which page script runs: "FloorBeam" | "Purlin"
    inputs,             \* the scalar input widgets of the page (keys span, dead_load, ...)
    additional_loads,   \* st.session_state.[purlin_]additional_loads
    widget_state,       \* values held under the keys load_value_i / load_unit_i / load_case_i
    calculate_clicked,  \* st.session_state.[purlin_]calculate_clicked
    design_results,     \* st.session_state.[purlin_]design_results
    load_diagrams,      \* st.session_state.[purlin_]load_diagrams
    outcome             \* what calculate_results did in the last script run

vars == <<member, inputs, additional_loads, widget_state, calculate_clicked,
          design_results, load_diagrams, outcome>>

\* The longest list of additional loads a session builds.
MaxLoads == 2

\* The longest list of additional loads a single calculation is checked on.
MaxCalcLoads == 1

-----------------------------------------------------------------------------
(* Exact rational arithmetic standing for Python float arithmetic.         *)

Abs(x) == IF x < 0 THEN -x ELSE x

RECURSIVE GCD(_, _)
GCD(a, b) == IF b = 0 THEN a ELSE GCD(b, a % b)

Norm(n, d) ==
    LET s == IF d < 0 THEN -1 ELSE 1
        g == GCD(Abs(n), Abs(d))
    IN  <<(s * n) \div g, (s * d) \div g>>

RInt(i) == <<i, 1>>
Q(n, d) == Norm(n, d)
Zero == <<0, 1>>

RAdd(x, y) ==
    LET g == GCD(x[2], y[2])
    IN  Norm(x[1] * (y[2] \div g) + y[1] * (x[2] \div g), (x[2] \div g) * y[2])

RNeg(x) == <<-x[1], x[2]>>
RSub(x, y) == RAdd(x, RNeg(y))

RMul(x, y) ==
    LET g1 == GCD(Abs(x[1]), y[2])
        g2 == GCD(Abs(y[1]), x[2])
    IN  Norm((x[1] \div g1) * (y[1] \div g2), (x[2] \div g2) * (y[2] \div g1))

\* Only used with y # 0: a division by zero raises before its value is used.
RDiv(x, y) == RMul(x, Norm(y[2], y[1]))

RLe(x, y) ==
    LET g == GCD(x[2], y[2])
    IN  x[1] * (y[2] \div g) <= y[1] * (x[2] \div g)

RLt(x, y) == ~RLe(y, x)
RIsZero(x) == x[1] = 0
RMin(x, y) == IF RLe(x, y) THEN x ELSE y

-----------------------------------------------------------------------------
(* utils.constants and the static tables (spec.md sections 3, 4.4, 6).     *)

\* spec.md 6: "a mass-to-force constant" (kg -> kN).
KG_TO_KN == Q(1, 100)

\* spec.md 6: the unit vocabulary; "kN/m2" stands for the string "kN/m²".
Units == {"kN", "kN/m", "kN/m2", "kg", "kg/m", "kg/m2"}
Cases == {"Case A", "Case B"}

DesignCodes == {"Egyptian Code", "American Code"}
EGYPTIAN_STEEL_GRADES == {"St37", "St52"}
AMERICAN_STEEL_GRADES == {"A36"}

\* spec.md 3: SteelGrade {regime, yield-stress, name}; MPa.
YieldStress(steel_grade) ==
    CASE steel_grade = "St37" -> 240
      [] steel_grade = "St52" -> 360
      [] steel_grade = "A36"  -> 250

\* spec.md 4.4: ordered tables of SectionProperties (mm, mm2, cm4, cm3), ascending
\* by Zx, one per regime and family.  A section without the key Iy lacks the
\* properties the LTB formula needs.
Section(name, h, b, tw, tf, area, Ix, Zx) ==
    [name |-> name, height |-> h, width |-> b, web_thickness |-> tw,
     flange_thickness |-> tf, area |-> area, Ix |-> Ix, Zx |-> Zx]

WithIy(s, Iy) == [k \in DOMAIN s \cup {"Iy"} |-> IF k = "Iy" THEN Iy ELSE s[k]]

SectionCatalog(regime, section_type) ==
    CASE regime = "Egyptian" /\ section_type = "I-Beam" ->
            << WithIy(Section("IPE 80", 80, 46, 4, 5, 764, 80, 20), 8),
               WithIy(Section("IPE 100", 100, 55, 4, 6, 1030, 171, 34), 16),
               WithIy(Section("IPE 120", 120, 64, 4, 6, 1320, 318, 53), 28) >>
      [] regime = "American" /\ section_type = "I-Beam" ->
            << Section("S3x5.7", 76, 59, 4, 7, 1080, 105, 28),
               Section("W4x13", 106, 103, 7, 9, 2470, 470, 89),
               Section("PG 200", 200, 180, 3, 4, 2016, 1700, 170) >>
      [] regime = "Egyptian" /\ section_type = "Channel" ->
            << WithIy(Section("UPN 50", 50, 38, 5, 7, 712, 26, 11), 9),
               WithIy(Section("UPN 65", 65, 42, 6, 8, 903, 58, 18), 14),
               WithIy(Section("UPN 80", 80, 45, 6, 8, 1100, 106, 27), 19) >>
      [] regime = "American" /\ section_type = "Channel" ->
            << Section("C3x4.1", 76, 36, 4, 7, 781, 69, 18),
               Section("C4x5.4", 102, 40, 5, 8, 1030, 160, 32),
               Section("C5x6.7", 127, 44, 5, 8, 1270, 312, 49) >>

-----------------------------------------------------------------------------
(* utils.calculations, modelled from spec.md (the file is not among the    *)
(* sources).  Signatures are those of the calls in the page scripts.       *)

\* spec.md 3 and 7: "Span ... Invariant: > 0; engine fails otherwise" (InvalidInput).
InvalidSpan(span) == span <= 0

IsMassUnit(unit) == unit \in {"kg", "kg/m", "kg/m2"}

\* spec.md 4.1: mass units are first converted to force by the constant factor.
convert_to_kn(value, unit) ==
    IF IsMassUnit(unit) THEN RMul(RInt(value), KG_TO_KN) ELSE RInt(value)

\* spec.md 4.2: M = w L^2 / 8 (uniform), P L / 4 (point at centre).
calculate_moment(span, load, load_type) ==
    IF load_type = "uniform"
    THEN RMul(load, Q(span * span, 8))
    ELSE RMul(load, Q(span, 4))

\* spec.md 4.2: V = w L / 2 (uniform), P / 2 (point at centre).
calculate_shear_force(span, load, load_type) ==
    IF load_type = "uniform"
    THEN RMul(load, Q(span, 2))
    ELSE RMul(load, Q(1, 2))

\* E I in kN m2 for Ix in cm4 (E = 210000 MPa).
FlexuralRigidity(Ix) == Q(21 * Ix, 10)

\* spec.md 4.2: 5 w L^4 / (384 E I) (uniform), P L^3 / (48 E I) (point); metres.
calculate_deflection(span, load, load_type, Ix) ==
    IF load_type = "uniform"
    THEN RDiv(RMul(load, Q(5 * span * span * span * span, 384)), FlexuralRigidity(Ix))
    ELSE RDiv(RMul(load, Q(span * span * span, 48)), FlexuralRigidity(Ix))

\* spec.md 4.1: a per-area load times the spacing is a per-length load.
calculate_wind_load(span, wind_load, spacing) == RMul(RInt(wind_load), spacing)

\* spec.md 4.3: the fixed enumeration of combinations, in order, the additional
\* loads folded into every one of them (with the isolated maintenance point load
\* as a uniform load beside it).  The names are the ones purlins.py matches
\* against (lines 100-115).
Combinations(loads, span) ==
    LET dl == RAdd(loads.dead, loads.live)
    IN  << [name |-> "Dead + Live",
            moment |-> calculate_moment(span, RAdd(dl, loads.additional), "uniform")],
           [name |-> "Dead + Live + Wind",
            moment |-> calculate_moment(span,
                          RAdd(RAdd(dl, loads.wind), loads.additional), "uniform")],
           [name |-> "Maintenance (point load)",
            moment |-> RAdd(calculate_moment(span, loads.maintenance, "point_center"),
                            calculate_moment(span, loads.additional, "uniform"))],
           [name |-> "Dead + Live + Maintenance",
            moment |-> calculate_moment(span,
                          RAdd(RAdd(dl, RDiv(loads.maintenance, RInt(span))),
                               loads.additional), "uniform")] >>

RECURSIVE MaxCombination(_, _, _)
MaxCombination(combos, i, best) ==
    IF i > Len(combos) THEN best
    ELSE MaxCombination(combos, i + 1,
            IF RLt(combos[best].moment, combos[i].moment) THEN i ELSE best)

\* spec.md 4.3: the combination of maximum moment; on a tie the earlier one.
calculate_critical_moment(loads, span) ==
    LET combos == Combinations(loads, span)
        k == MaxCombination(combos, 2, 1)
    IN  [critical_moment |-> combos[k].moment, critical_case |-> combos[k].name]

Status(ok) == IF ok THEN "Safe" ELSE "Unsafe"

\* spec.md 4.6 (1): capacity = Zx fy (kNm for cm3 and MPa), utilization = M / capacity.
CapacityCheck(section, steel_grade, moment) ==
    LET capacity == Q(section.Zx * YieldStress(steel_grade), 1000)
        utilization == RDiv(moment, capacity)
    IN  [status |-> Status(RLe(utilization, RInt(1))),
         moment_capacity |-> capacity,
         utilization |-> utilization,
         \* capacity / moment; <<0, 0>> stands for "no finite value" at moment 0
         safety_factor |-> IF RIsZero(moment) THEN <<0, 0>> ELSE RDiv(capacity, moment)]

\* the squares of the compact limits c sqrt(E / fy), per regime
FlangeLimitSq(regime, steel_grade) ==
    LET c == IF regime = "American" THEN Q(38, 100) ELSE Q(37, 100)
    IN  RMul(RMul(c, c), Q(210000, YieldStress(steel_grade)))

WebLimitSq(regime, steel_grade) ==
    LET c == IF regime = "American" THEN Q(376, 100) ELSE Q(277, 100)
    IN  RMul(RMul(c, c), Q(210000, YieldStress(steel_grade)))

\* spec.md 4.6 (2): flange and web slenderness against the compact limits.
CompactnessCheck(section, steel_grade, regime) ==
    LET flange_ratio == Q(section.width, 2 * section.flange_thickness)
        web_ratio == Q(section.height - 2 * section.flange_thickness, section.web_thickness)
        flange_ok == RLe(RMul(flange_ratio, flange_ratio), FlangeLimitSq(regime, steel_grade))
        web_ok == RLe(RMul(web_ratio, web_ratio), WebLimitSq(regime, steel_grade))
    IN  [classification |-> IF flange_ok /\ web_ok THEN "Compact" ELSE "Non-compact",
         flange_ratio |-> flange_ratio, flange_status |-> Status(flange_ok),
         web_ratio |-> web_ratio, web_status |-> Status(web_ok)]

CannotDetermine == "Cannot determine - missing section properties"

\* spec.md 4.6 (3): design capacity = min(bending capacity, factor * Mcr), with
\* Mcr = pi^2 E Iy / Lb^2 * h / 2 and Lb the span (the call passes no chord angle).
LtbCheck(section, steel_grade, regime, moment, span) ==
    IF "Iy" \notin DOMAIN section
    THEN [status |-> CannotDetermine]
    ELSE
      LET capacity == Q(section.Zx * YieldStress(steel_grade), 1000)
          critical == RMul(Q(21 * section.Iy, 2 * span * span), Q(section.height, 1000))
          factor == IF regime = "American" THEN Q(9, 10) ELSE Q(58, 100)
          design == RMin(capacity, RMul(factor, critical))
          utilization == RDiv(moment, design)
      IN  [status |-> Status(RLe(utilization, RInt(1))),
           critical_moment |-> critical,
           design_capacity |-> design,
           utilization |-> utilization]

\* spec.md 4.6 (4): 360 for floor beams, 240 for purlins.  The call names the
\* member only by its section family (I-Beam for a floor beam, Channel for a purlin).
DeflectionRatio(section_type) == IF section_type = "I-Beam" THEN 360 ELSE 240

DeflectionCheck(deflection, span, section_type) ==
    LET ratio == DeflectionRatio(section_type)
        allowable == Q(span, ratio)
        utilization == RDiv(deflection, allowable)
    IN  [status |-> Status(RLe(utilization, RInt(1))),
         allowable_deflection |-> allowable,
         limit_ratio |-> ratio,
         utilization |-> utilization]

\* variant: an LTB check that could not be determined fails the section
OverallStatus_LtbStrict(capacity_check, compactness_check, ltb_check, deflection_check) ==
    Status(/\ capacity_check.status = "Safe"
           /\ compactness_check.classification = "Compact"
           /\ ltb_check.status = "Safe"
           /\ deflection_check.status = "Safe")

\* spec.md 4.6: Safe iff all four sub-checks are Safe, "cannot determine" counting as Safe.
OverallStatus(capacity_check, compactness_check, ltb_check, deflection_check) ==
    Status(/\ capacity_check.status = "Safe"
           /\ compactness_check.classification = "Compact"
           /\ ltb_check.status \in {"Safe", CannotDetermine}
           /\ deflection_check.status = "Safe")

\* the load that produces `moment` under the pattern (spec.md 4.2 inverted)
LoadOfMoment(moment, span, load_type) ==
    IF load_type = "uniform"
    THEN RMul(moment, Q(8, span * span))
    ELSE RMul(moment, Q(4, span))

\* spec.md 4.5 / 4.6: the CapacityChecker on one candidate section.
CheckSection(section, moment, span, load_type, steel_grade, regime, section_type) ==
    LET deflection == calculate_deflection(span, LoadOfMoment(moment, span, load_type),
                                           load_type, section.Ix)
        cap == CapacityCheck(section, steel_grade, moment)
        comp == CompactnessCheck(section, steel_grade, regime)
        ltb == LtbCheck(section, steel_grade, regime, moment, span)
        defl == DeflectionCheck(deflection, span, section_type)
    IN  [section_properties |-> section,
         deflection |-> deflection,
         capacity_check |-> cap,
         compactness_check |-> comp,
         ltb_check |-> ltb,
         deflection_check |-> defl,
         overall_status |-> OverallStatus(cap, comp, ltb, defl),
         catalog_exhausted |-> FALSE]

\* spec.md 3: the regime a lower-cased design code names; "" when it names none.
RegimeOf(code) ==
    CASE code = "egyptian code" -> "Egyptian"
      [] code = "american code" -> "American"
      [] OTHER -> ""

GradesOf(regime) ==
    CASE regime = "Egyptian" -> EGYPTIAN_STEEL_GRADES
      [] regime = "American" -> AMERICAN_STEEL_GRADES
      [] OTHER -> {}

\* spec.md 7: InvalidInput (span <= 0, unrecognized steel grade for regime).
SelectRaises(span, steel_grade, code) ==
    \/ InvalidSpan(span)
    \/ steel_grade \notin GradesOf(RegimeOf(code))

RECURSIVE ScanCatalog(_, _, _, _, _, _, _, _)
ScanCatalog(catalog, i, moment, span, load_type, steel_grade, regime, section_type) ==
    LET r == CheckSection(catalog[i], moment, span, load_type, steel_grade, regime,
                          section_type)
    IN  IF r.overall_status = "Safe" THEN r
        ELSE IF i = Len(catalog)
             THEN [r EXCEPT !.overall_status = "Unsafe", !.catalog_exhausted = TRUE]
             ELSE ScanCatalog(catalog, i + 1, moment, span, load_type, steel_grade,
                              regime, section_type)

\* spec.md 4.5: the first candidate whose overall_status is Safe; on exhaustion
\* the last candidate, Unsafe, with catalog_exhausted.
select_optimal_section(moment, span, load_type, steel_grade, code, section_type) ==
    ScanCatalog(SectionCatalog(RegimeOf(code), section_type), 1, moment, span,
                load_type, steel_grade, RegimeOf(code), section_type)

-----------------------------------------------------------------------------
(* The page scripts: floor_beams.py and purlins.py.                        *)

\* floor_beams.py:63  beam_width = 1.0 (the tributary width, in m)
beam_width == 1

\* purlins.py:65  purlin_spacing = 1.5 (m)
purlin_spacing == Q(3, 2)

\* floor_beams.py:28 / purlins.py:29  the empty dict {}
NoResults == <<>>

\* str.lower() on the two design codes the radio offers (floor_beams.py:99)
Lower(design_code) ==
    CASE design_code = "Egyptian Code" -> "egyptian code"
      [] design_code = "American Code" -> "american code"
      [] OTHER -> design_code

\* floor_beams.py:178  the options of the steel grade selectbox
SteelGradeOptions(design_code) ==
    IF design_code = "Egyptian Code" THEN EGYPTIAN_STEEL_GRADES ELSE AMERICAN_STEEL_GRADES

\* floor_beams.py:34-38  the entry add_load appends
NewLoad == [value |-> 0, unit |-> "kN", case |-> "Case A"]

\* floor_beams.py:81  'm' in load['unit'].lower()
HasM(unit) == unit \in {"kN/m", "kN/m2", "kg/m", "kg/m2"}

\* floor_beams.py:80-83 / purlins.py:78-81  one pass of the loop body
LoadValue(load, span) ==
    LET load_value == convert_to_kn(load.value, load.unit)
    IN  IF ~HasM(load.unit) THEN RDiv(load_value, RInt(span)) ELSE load_value

\* floor_beams.py:76-84 / purlins.py:75-82  additional_load_total
RECURSIVE AdditionalLoadTotal(_, _)
AdditionalLoadTotal(loads, span) ==
    IF loads = <<>> THEN Zero
    ELSE RAdd(AdditionalLoadTotal(SubSeq(loads, 1, Len(loads) - 1), span),
              LoadValue(loads[Len(loads)], span))

\* the loop divides by the span (line 83) for a load whose unit has no 'm'
LoopDividesBySpan(loads) == \E i \in 1..Len(loads) : ~HasM(loads[i].unit)

(* ---------------------------- floor_beams.py --------------------------- *)

\* floor_beams.py:64, 69-73  total_dead_load
FloorTotalDeadLoad(inp) ==
    IF inp.supported_beam_reaction > 0
    THEN RAdd(RInt(inp.dead_load),
              RDiv(RInt(inp.supported_beam_reaction), RInt(inp.span)))
    ELSE RInt(inp.dead_load)

\* variant: the floor cover load left out of the sum
FloorTotalLoad_NoCover(inp, loads) ==
    RAdd(RAdd(FloorTotalDeadLoad(inp), RMul(RInt(inp.live_load), RInt(beam_width))),
         AdditionalLoadTotal(loads, inp.span))

\* variant: the tributary width added to the area loads instead of multiplying them
FloorTotalLoad_WidthAdded(inp, loads) ==
    RAdd(RAdd(RAdd(FloorTotalDeadLoad(inp),
                   RAdd(RInt(inp.floor_cover_load), RInt(beam_width))),
              RAdd(RInt(inp.live_load), RInt(beam_width))),
         AdditionalLoadTotal(loads, inp.span))

\* floor_beams.py:65-66, 87  total_load
FloorTotalLoad(inp, loads) ==
    RAdd(RAdd(RAdd(FloorTotalDeadLoad(inp),
                   RMul(RInt(inp.floor_cover_load), RInt(beam_width))),
              RMul(RInt(inp.live_load), RInt(beam_width))),
         AdditionalLoadTotal(loads, inp.span))

\* floor_beams.py:90  max_moment
FloorMaxMoment(span, total_load) == calculate_moment(span, total_load, "uniform")

\* floor_beams.py:91  max_shear
FloorMaxShear(span, total_load) == calculate_shear_force(span, total_load, "uniform")

\* variant: the design code passed as the radio shows it, not lower-cased
FloorCode_NotLowered(inp) == inp.design_code

\* floor_beams.py:99  code=design_code.lower()
FloorCode(inp) == Lower(inp.design_code)

\* variant: the load pattern of a point load passed for the uniform load
FloorSelect_PointLoad(inp, max_moment) ==
    select_optimal_section(max_moment, inp.span, "point_center", inp.steel_grade,
                           FloorCode(inp), "I-Beam")

\* floor_beams.py:94-101  results
FloorSelect(inp, max_moment) ==
    select_optimal_section(max_moment, inp.span, "uniform", inp.steel_grade,
                           FloorCode(inp), "I-Beam")

\* floor_beams.py:45-101  the first statement that raises, in program order;
\* "stored" when none does.  No statement of calculate_results catches anything.
FloorOutcome(inp, loads) ==
    IF inp.supported_beam_reaction > 0 /\ inp.span = 0 THEN "ZeroDivisionError"
    ELSE IF LoopDividesBySpan(loads) /\ inp.span = 0 THEN "ZeroDivisionError"
    ELSE IF InvalidSpan(inp.span) THEN "InvalidInput"
    ELSE IF SelectRaises(inp.span, inp.steel_grade, FloorCode(inp))
         THEN "InvalidInput"
    ELSE "stored"

\* floor_beams.py:110-126.  The key 'additional_loads' holds the session list
\* itself (line 58 binds the name to it), not a copy, so it is not a field here.
FloorDesignResults(inp, loads) ==
    LET total_load == FloorTotalLoad(inp, loads)
        max_moment == FloorMaxMoment(inp.span, total_load)
        max_shear == FloorMaxShear(inp.span, total_load)
        results == FloorSelect(inp, max_moment)
    IN  [design_type |-> "Floor Beam",
         span |-> inp.span,
         dead_load |-> inp.dead_load,
         floor_cover_load |-> inp.floor_cover_load,
         live_load |-> inp.live_load,
         is_accessible |-> inp.is_accessible,
         chord_angle |-> inp.chord_angle,
         steel_grade |-> inp.steel_grade,
         code |-> inp.design_code,
         supported_beam_reaction |-> inp.supported_beam_reaction,
         total_load |-> total_load,
         moment |-> max_moment,
         shear |-> max_shear,
         results |-> results]

\* floor_beams.py:104-107, 129-134, from the values calculate_results holds
\* (dr is the dict it stores).  A diagram is the arguments it is drawn from.
FloorLoadDiagrams(dr) ==
    [moment_diagram |-> <<dr.span, dr.moment, "uniform">>,
     shear_diagram |-> <<dr.span, dr.shear, "uniform">>,
     deflection_diagram |-> <<dr.span, dr.results["deflection"], "uniform">>,
     section_profile |-> dr.results["section_properties"]]

(* ------------------------------ purlins.py ----------------------------- *)

\* purlins.py:62  maintenance_load_kn
MaintenanceKn(inp) == RMul(RInt(inp.maintenance_load), KG_TO_KN)

\* variant: the wind pressure entered in the dict without the spacing
PurlinLoads_RawWind(inp, loads) ==
    [dead |-> RInt(inp.dead_load),
     live |-> RInt(inp.live_load),
     wind |-> RInt(inp.wind_load),
     maintenance |-> MaintenanceKn(inp),
     additional |-> AdditionalLoadTotal(loads, inp.span)]

\* purlins.py:68-70, 85-91  the loads dict
PurlinLoads(inp, loads) ==
    [dead |-> RInt(inp.dead_load),
     live |-> RInt(inp.live_load),
     wind |-> calculate_wind_load(inp.span, inp.wind_load, purlin_spacing),
     maintenance |-> MaintenanceKn(inp),
     additional |-> AdditionalLoadTotal(loads, inp.span)]

\* sub in critical_case_str, for the names and substrings of purlins.py:100-115
In(sub, str) ==
    CASE sub = "Dead + Live" ->
            str \in {"Dead + Live", "Dead + Live + Wind", "Dead + Live + Maintenance"}
      [] sub = "Maintenance" ->
            str \in {"Maintenance (point load)", "Dead + Live + Maintenance"}
      [] sub = "point" -> str = "Maintenance (point load)"
      [] sub = "Wind" -> str = "Dead + Live + Wind"

\* purlins.py:100, 103, 119  load_type
PurlinLoadType(critical_case) ==
    IF critical_case = "Maintenance (point load)" THEN "point_center" ELSE "uniform"

\* variant: the wind load added whatever the critical case
PurlinTotalUniformLoad_WindAlways(pl, span, critical_case) ==
    LET a == IF In("Dead + Live", critical_case) THEN RAdd(pl.dead, pl.live) ELSE Zero
        b == IF In("Maintenance", critical_case) /\ ~In("point", critical_case)
             THEN RAdd(a, RDiv(pl.maintenance, RInt(span))) ELSE a
    IN  RAdd(RAdd(b, pl.wind), pl.additional)

\* purlins.py:106-116  total_uniform_load (pl is the loads dict)
PurlinTotalUniformLoad(pl, span, critical_case) ==
    LET a == IF In("Dead + Live", critical_case) THEN RAdd(pl.dead, pl.live) ELSE Zero
        b == IF In("Maintenance", critical_case) /\ ~In("point", critical_case)
             THEN RAdd(a, RDiv(pl.maintenance, RInt(span))) ELSE a
        c == IF In("Wind", critical_case) THEN RAdd(b, pl.wind) ELSE b
    IN  RAdd(c, pl.additional)

\* purlins.py:100-119  max_shear
PurlinMaxShear(pl, span, critical_case) ==
    IF critical_case = "Maintenance (point load)"
    THEN RDiv(pl.maintenance, RInt(2))
    ELSE calculate_shear_force(span, PurlinTotalUniformLoad(pl, span, critical_case),
                               "uniform")

\* purlins.py:127  code=design_code.lower()
PurlinCode(inp) == Lower(inp.design_code)

\* variant: the pattern of the floor-beam page, "uniform", whatever the critical case
PurlinSelect_AlwaysUniform(inp, max_moment, load_type) ==
    select_optimal_section(max_moment, inp.span, "uniform", inp.steel_grade,
                           PurlinCode(inp), "Channel")

\* variant: the section family of the floor-beam page
PurlinSelect_IBeam(inp, max_moment, load_type) ==
    select_optimal_section(max_moment, inp.span, load_type, inp.steel_grade,
                           PurlinCode(inp), "I-Beam")

\* purlins.py:122-129  results
PurlinSelect(inp, max_moment, load_type) ==
    select_optimal_section(max_moment, inp.span, load_type, inp.steel_grade,
                           PurlinCode(inp), "Channel")

\* purlins.py:46-129  the first statement that raises, in program order:
\* calculate_wind_load (line 70) is the first call that is given the span.
PurlinOutcome(inp, loads) ==
    IF InvalidSpan(inp.span) THEN "InvalidInput"
    ELSE IF SelectRaises(inp.span, inp.steel_grade, PurlinCode(inp))
         THEN "InvalidInput"
    ELSE "stored"

\* purlins.py:84-155 (the key 'additional_loads' is the session list itself)
PurlinDesignResults(inp, loads) ==
    LET pl == PurlinLoads(inp, loads)
        moment_results == calculate_critical_moment(pl, inp.span)
        max_moment == moment_results.critical_moment
        critical_case == moment_results.critical_case
        max_shear == PurlinMaxShear(pl, inp.span, critical_case)
        load_type == PurlinLoadType(critical_case)
        results == PurlinSelect(inp, max_moment, load_type)
    IN  [design_type |-> "Purlin",
         span |-> inp.span,
         dead_load |-> inp.dead_load,
         live_load |-> inp.live_load,
         is_accessible |-> inp.is_accessible,
         maintenance_load |-> inp.maintenance_load,
         wind_load |-> inp.wind_load,
         chord_angle |-> inp.chord_angle,
         steel_grade |-> inp.steel_grade,
         code |-> inp.design_code,
         moment |-> max_moment,
         shear |-> max_shear,
         critical_case |-> critical_case,
         load_type |-> load_type,
         results |-> results]

\* purlins.py:132-135, 158-163, from the values calculate_results holds
PurlinLoadDiagrams(dr) ==
    [moment_diagram |-> <<dr.span, dr.moment, dr.load_type>>,
     shear_diagram |-> <<dr.span, dr.shear, dr.load_type>>,
     deflection_diagram |-> <<dr.span, dr.results["deflection"], dr.load_type>>,
     section_profile |-> dr.results["section_properties"]]

-----------------------------------------------------------------------------
(* The additional-load list and its index-keyed widgets.  Indices are      *)
(* 1-based here (Python's i is this i - 1).                                *)

\* floor_beams.py:33-38 / purlins.py:34-39
add_load(loads) == Append(loads, NewLoad)

\* floor_beams.py:41-42 / purlins.py:42-43  list.pop(index)
remove_load(loads, index) ==
    SubSeq(loads, 1, index - 1) \o SubSeq(loads, index + 1, Len(loads))

\* floor_beams.py:191-213 / purlins.py:220-242  one pass of the widget loop: the
\* widget keyed load_*_i returns the value the session holds under that key, or
\* its value= argument when the key is new, and the script writes it to entry i.
RenderLoadWidgets(loads, held) ==
    [i \in 1..Len(loads) |-> IF i \in DOMAIN held THEN held[i] ELSE loads[i]]

-----------------------------------------------------------------------------
(* Input values explored.                                                  *)

FloorInputs(spans, deads, covers, lives, reactions, chords, codes) ==
    UNION { { [span |-> s, dead_load |-> d, floor_cover_load |-> c, live_load |-> l,
               is_accessible |-> TRUE, chord_angle |-> ch, steel_grade |-> g,
               design_code |-> dc, supported_beam_reaction |-> r] :
              s \in spans, d \in deads, c \in covers, l \in lives, r \in reactions,
              ch \in chords, g \in SteelGradeOptions(dc) } : dc \in codes }

PurlinInputs(spans, deads, lives, maints, winds, chords, codes) ==
    UNION { { [span |-> s, dead_load |-> d, live_load |-> l, is_accessible |-> FALSE,
               maintenance_load |-> m, wind_load |-> w, chord_angle |-> ch,
               steel_grade |-> g, design_code |-> dc] :
              s \in spans, d \in deads, l \in lives, m \in maints, w \in winds,
              ch \in chords, g \in SteelGradeOptions(dc) } : dc \in codes }

Members == {"FloorBeam", "Purlin"}

\* the forms a session submits
SessionInputs(m) ==
    IF m = "FloorBeam"
    THEN FloorInputs({-2, 0, 2}, {1}, {0}, {3}, {4}, {0}, {"American Code"})
    ELSE PurlinInputs({-2, 0, 2}, {1}, {1}, {400}, {0}, {15}, {"American Code"})

\* what the load widgets of a session are set to
SessionValues == {0, 2}
SessionUnits == {"kN", "kg/m2"}

\* the forms and load lists a single calculation is checked on
CalcInputs(m) ==
    IF m = "FloorBeam"
    THEN FloorInputs({-2, 0, 2, 3}, {0}, {0, 2}, {0, 6}, {-4, 0}, {0, 15}, DesignCodes)
         \cup FloorInputs({0, 2}, {1}, {2}, {6}, {4}, {0}, DesignCodes)
    ELSE PurlinInputs({-2, 0, 2, 3}, {0}, {0, 4}, {0, 100, 400}, {0, 1}, {0, 15},
                      DesignCodes)
         \cup PurlinInputs({2}, {1}, {4}, {400}, {1}, {15}, DesignCodes)

CalcLoads == {NewLoad} \cup {[value |-> 2, unit |-> u, case |-> "Case A"] : u \in Units}

LoadLists(domain, n) == UNION {[1..k -> domain] : k \in 0..n}

-----------------------------------------------------------------------------
(* The session.                                                            *)

\* floor_beams.py:22-30 / purlins.py:23-31, with the form filled in
Init ==
    /\ member \in Members
    /\ inputs \in SessionInputs(member)
    /\ additional_loads = <<>>
    /\ widget_state = <<>>
    /\ calculate_clicked = FALSE
    /\ design_results = NoResults
    /\ load_diagrams = NoResults
    /\ outcome = "none"

\* a script run that does not call calculate_results
Rerun(loads) ==
    /\ additional_loads' = loads
    /\ widget_state' = loads
    /\ outcome' = "none"
    /\ UNCHANGED <<member, inputs, calculate_clicked, design_results, load_diagrams>>

\* floor_beams.py:220-222: the Add Load button, then the rerun it asks for
AddLoad ==
    /\ Len(additional_loads) < MaxLoads
    /\ Rerun(RenderLoadWidgets(add_load(additional_loads), widget_state))

\* How the installed Streamlit identifies a keyed widget whose value= / index=
\* argument changed: by its key alone (the value held under the key is kept), or
\* by key and arguments (it is a new widget and returns its argument).  The
\* source pins no version, so either can be the build.
WidgetIdentities == {"key", "key and arguments"}

\* floor_beams.py:215-217: the remove button of load i, then the rerun it asks for.
\* st.rerun() stops the run before the widget keys of the entries after i are
\* dropped, so the next pass finds every key load_*_j of the shorter list held.
RemoveLoad(i) ==
    /\ i \in 1..Len(additional_loads)
    /\ \E identity \in WidgetIdentities :
          Rerun(IF identity = "key"
                THEN RenderLoadWidgets(remove_load(additional_loads, i), widget_state)
                ELSE remove_load(additional_loads, i))

\* floor_beams.py:195-199: the user sets the value widget of load i
SetLoadValue(i, v) ==
    /\ i \in 1..Len(additional_loads)
    /\ Rerun(RenderLoadWidgets(additional_loads, [widget_state EXCEPT ![i].value = v]))

\* floor_beams.py:201-206
SetLoadUnit(i, u) ==
    /\ i \in 1..Len(additional_loads)
    /\ Rerun(RenderLoadWidgets(additional_loads, [widget_state EXCEPT ![i].unit = u]))

\* floor_beams.py:208-213
SetLoadCase(i, c) ==
    /\ i \in 1..Len(additional_loads)
    /\ Rerun(RenderLoadWidgets(additional_loads, [widget_state EXCEPT ![i].case = c]))

\* floor_beams.py:45-101 / purlins.py:46-129, then the four plot_* calls of
\* floor_beams.py:104-107 / purlins.py:132-135 (utils.visualization), which return
\* (drawn) or raise.
Outcome(m, inp, loads, drawn) ==
    LET engine == IF m = "FloorBeam" THEN FloorOutcome(inp, loads)
                  ELSE PurlinOutcome(inp, loads)
    IN  IF engine = "stored" /\ ~drawn THEN "PlotError" ELSE engine

DesignResults(m, inp, loads) ==
    IF m = "FloorBeam" THEN FloorDesignResults(inp, loads)
    ELSE PurlinDesignResults(inp, loads)

LoadDiagrams(m, dr) ==
    IF m = "FloorBeam" THEN FloorLoadDiagrams(dr) ELSE PurlinLoadDiagrams(dr)

\* floor_beams.py:58, 121 / purlins.py:59, 149  design_results['additional_loads']:
\* line 58 binds the name to the session list and line 121 stores that object, so
\* the entry is the list add_load, remove_load and the widget loop change in place.
EchoedLoads == IF design_results = NoResults THEN <<>> ELSE additional_loads

\* variant: the stored results and diagrams are cleared before the calculation
calculate_results_ClearsFirst(inp, drawn) ==
    /\ inputs' = inp
    /\ calculate_clicked' = TRUE
    /\ outcome' = Outcome(member, inp, additional_loads, drawn)
    /\ IF outcome' = "stored"
       THEN /\ design_results' = DesignResults(member, inp, additional_loads)
            /\ load_diagrams' = LoadDiagrams(member, design_results')
       ELSE /\ design_results' = NoResults
            /\ load_diagrams' = NoResults
    /\ UNCHANGED <<member, additional_loads, widget_state>>

\* variant: a calculation on the span of the stored result reuses its 'results'
calculate_results_ReusesStored(inp, drawn) ==
    /\ inputs' = inp
    /\ calculate_clicked' = TRUE
    /\ outcome' = Outcome(member, inp, additional_loads, drawn)
    /\ IF outcome' = "stored"
       THEN /\ design_results' =
                 IF design_results # NoResults /\ design_results.span = inp.span
                 THEN [DesignResults(member, inp, additional_loads)
                          EXCEPT !.results = design_results.results]
                 ELSE DesignResults(member, inp, additional_loads)
            /\ load_diagrams' = LoadDiagrams(member, design_results')
       ELSE UNCHANGED <<design_results, load_diagrams>>
    /\ UNCHANGED <<member, additional_loads, widget_state>>

\* variant: design_results is stored before the diagrams are created
calculate_results_StoresResultsFirst(inp, drawn) ==
    /\ inputs' = inp
    /\ calculate_clicked' = TRUE
    /\ outcome' = Outcome(member, inp, additional_loads, drawn)
    /\ IF outcome' \in {"stored", "PlotError"}
       THEN design_results' = DesignResults(member, inp, additional_loads)
       ELSE UNCHANGED design_results
    /\ IF outcome' = "stored"
       THEN load_diagrams' = LoadDiagrams(member, design_results')
       ELSE UNCHANGED load_diagrams
    /\ UNCHANGED <<member, additional_loads, widget_state>>

\* floor_beams.py:225-227, 45-134: the Calculate button with the form set to inp.
\* An exception leaves calculate_results at the statement that raised it.
calculate_results(inp, drawn) ==
    /\ inputs' = inp
    /\ calculate_clicked' = TRUE
    /\ outcome' = Outcome(member, inp, additional_loads, drawn)
    /\ IF outcome' = "stored"
       THEN /\ design_results' = DesignResults(member, inp, additional_loads)
            /\ load_diagrams' = LoadDiagrams(member, design_results')
       ELSE UNCHANGED <<design_results, load_diagrams>>
    /\ UNCHANGED <<member, additional_loads, widget_state>>

Calculate == \E inp \in SessionInputs(member), drawn \in BOOLEAN : calculate_results(inp, drawn)

Next ==
    \/ AddLoad
    \/ \E i \in 1..MaxLoads : RemoveLoad(i)
    \/ \E i \in 1..MaxLoads, v \in SessionValues : SetLoadValue(i, v)
    \/ \E i \in 1..MaxLoads, u \in SessionUnits : SetLoadUnit(i, u)
    \/ \E i \in 1..MaxLoads, c \in Cases : SetLoadCase(i, c)
    \/ Calculate

Spec == Init /\ [][Next]_vars

-----------------------------------------------------------------------------
(* One calculation on each form and load list.                             *)

InitCalc ==
    /\ member \in Members
    /\ inputs \in CalcInputs(member)
    /\ additional_loads \in LoadLists(CalcLoads, MaxCalcLoads)
    /\ widget_state = additional_loads
    /\ calculate_clicked = FALSE
    /\ design_results = NoResults
    /\ load_diagrams = NoResults
    /\ outcome = "none"

\* the calculation itself: the diagrams are drawn
CalculateOnce == calculate_results(inputs, TRUE)

NextCalc == CalculateOnce

SpecCalc == InitCalc /\ [][NextCalc]_vars

-----------------------------------------------------------------------------
(* Properties.  In a state with outcome = "stored" the last script run was *)
(* a calculate_results that ran to its end, so design_results was computed *)
(* from the inputs and additional_loads of this state.                     *)

Stored == outcome = "stored"

\* what a stored design_results says was asked of the selector
RegimeUsed == IF design_results.code = "Egyptian Code" THEN "Egyptian" ELSE "American"
FamilyUsed == IF member = "FloorBeam" THEN "I-Beam" ELSE "Channel"
PatternUsed == IF member = "FloorBeam" THEN "uniform" ELSE design_results.load_type
CatalogUsed == SectionCatalog(RegimeUsed, FamilyUsed)

\* the CapacityChecker's verdict on candidate i for the stored moment
Candidate(i) ==
    CheckSection(CatalogUsed[i], design_results.moment, design_results.span,
                 PatternUsed, design_results.steel_grade, RegimeUsed, FamilyUsed)

NoSafeCandidate == \A i \in 1..Len(CatalogUsed) : Candidate(i).overall_status # "Safe"

SameChecks(r, c) ==
    /\ r.section_properties = c.section_properties
    /\ r.deflection = c.deflection
    /\ r.capacity_check = c.capacity_check
    /\ r.compactness_check = c.compactness_check
    /\ r.ltb_check = c.ltb_check
    /\ r.deflection_check = c.deflection_check

\* C1: the stored result is the verdict on one catalog entry, no entry before it
\* is Safe, and unless the whole catalog failed it is Safe itself: the first
\* Safe candidate in catalog order, with that candidate's own section properties.
C1_FirstSafeCandidate ==
    Stored =>
        \E i \in 1..Len(CatalogUsed) :
            /\ SameChecks(design_results.results, Candidate(i))
            /\ \A j \in 1..(i - 1) : Candidate(j).overall_status # "Safe"
            /\ \/ design_results.results = Candidate(i) /\ Candidate(i).overall_status = "Safe"
               \/ i = Len(CatalogUsed) /\ Candidate(i).overall_status # "Safe"

\* a Safe result that is not the first entry of its catalog, under a point load
C1_Witness ==
    /\ Stored
    /\ design_results.results.overall_status = "Safe"
    /\ design_results.results.section_properties # CatalogUsed[1]
    /\ PatternUsed = "point_center"

\* C2: with a valid span calculate_results raises nothing and stores; when no
\* catalog entry is Safe the stored result is the last entry, Unsafe, flagged
\* catalog_exhausted, and the diagrams were drawn from it.
C2_ExhaustionStored ==
    (calculate_clicked /\ inputs.span > 0) =>
        /\ Stored
        /\ NoSafeCandidate =>
              /\ design_results.results.overall_status = "Unsafe"
              /\ design_results.results.catalog_exhausted
              /\ design_results.results.section_properties = CatalogUsed[Len(CatalogUsed)]
              /\ load_diagrams.deflection_diagram[2] = design_results.results.deflection
              /\ load_diagrams.section_profile = CatalogUsed[Len(CatalogUsed)]

\* the stored moment is above the bending capacity of every section of the catalog
C2_Witness ==
    /\ Stored
    /\ \A i \in 1..Len(CatalogUsed) : Candidate(i).capacity_check.status = "Unsafe"
    /\ design_results.results.catalog_exhausted

\* C3: overall_status is Safe exactly when the capacity, compactness (flange and
\* web), LTB and deflection checks are Safe, an LTB "cannot determine" counting as Safe.
C3_OverallIffAllSafe ==
    Stored =>
        LET r == design_results.results
        IN  (r.overall_status = "Safe") <=>
                /\ r.capacity_check.status = "Safe"
                /\ r.compactness_check.flange_status = "Safe"
                /\ r.compactness_check.web_status = "Safe"
                /\ r.ltb_check.status \in {"Safe", CannotDetermine}
                /\ r.deflection_check.status = "Safe"

\* a Safe result whose LTB check could not be determined
C3_Witness ==
    /\ Stored
    /\ design_results.results.overall_status = "Safe"
    /\ design_results.results.ltb_check.status = CannotDetermine

\* the loads of the purlin combinations, from the stored inputs
PurlinLoadsUsed ==
    [dead |-> RInt(design_results.dead_load),
     live |-> RInt(design_results.live_load),
     wind |-> RMul(RInt(design_results.wind_load), Q(3, 2)),
     maintenance |-> RMul(RInt(design_results.maintenance_load), KG_TO_KN),
     additional |-> AdditionalLoadTotal(additional_loads, design_results.span)]

CombinationsUsed == Combinations(PurlinLoadsUsed, design_results.span)

\* C4: the stored critical case is a combination of the enumeration whose moment
\* is the stored moment, no combination has a larger moment, and every
\* combination enumerated before it has a strictly smaller one.
C4_CriticalIsFirstMaximum ==
    (Stored /\ member = "Purlin") =>
        \E k \in 1..Len(CombinationsUsed) :
            /\ CombinationsUsed[k].name = design_results.critical_case
            /\ CombinationsUsed[k].moment = design_results.moment
            /\ \A j \in 1..Len(CombinationsUsed) :
                  RLe(CombinationsUsed[j].moment, design_results.moment)
            /\ \A j \in 1..(k - 1) :
                  RLt(CombinationsUsed[j].moment, design_results.moment)

\* Dead + Live and Dead + Live + Wind tie at a positive maximum moment
C4_Witness ==
    /\ Stored
    /\ member = "Purlin"
    /\ design_results.critical_case = "Dead + Live"
    /\ CombinationsUsed[2].moment = design_results.moment
    /\ ~RIsZero(design_results.moment)

\* the load a combination carries without the additional loads, by its name
OwnLoadOfCase(name) ==
    LET pl == PurlinLoadsUsed
    IN  CASE name = "Dead + Live" -> RAdd(pl.dead, pl.live)
          [] name = "Dead + Live + Wind" -> RAdd(RAdd(pl.dead, pl.live), pl.wind)
          [] name = "Maintenance (point load)" -> pl.maintenance
          [] name = "Dead + Live + Maintenance" ->
                RAdd(RAdd(pl.dead, pl.live),
                     RDiv(pl.maintenance, RInt(design_results.span)))

\* C5: in the purlin design the stored moment and the stored shear are those of
\* the critical combination's own load plus the additional-load total a as a
\* uniform load (a L^2 / 8 and a L / 2), whichever combination is critical.
C5_AdditionalInEveryCombination ==
    (Stored /\ member = "Purlin") =>
        LET L == design_results.span
            a == PurlinLoadsUsed.additional
            own == OwnLoadOfCase(design_results.critical_case)
            pattern == IF design_results.critical_case = "Maintenance (point load)"
                       THEN "point_center" ELSE "uniform"
        IN  /\ design_results.shear =
                  RAdd(calculate_shear_force(L, own, pattern), RMul(a, Q(L, 2)))
            /\ design_results.moment =
                  RAdd(calculate_moment(L, own, pattern), RMul(a, Q(L * L, 8)))

\* the linear load (kN/m) the unit rules give one additional load
ExpectedContribution(load, span, width) ==
    LET force == IF load.unit \in {"kg", "kg/m", "kg/m2"}
                 THEN RMul(RInt(load.value), KG_TO_KN) ELSE RInt(load.value)
    IN  CASE load.unit \in {"kN", "kg"} -> RDiv(force, RInt(span))
          [] load.unit \in {"kN/m", "kg/m"} -> force
          [] load.unit \in {"kN/m2", "kg/m2"} -> RMul(force, width)

RECURSIVE ExpectedAdditional(_, _, _)
ExpectedAdditional(loads, span, width) ==
    IF loads = <<>> THEN Zero
    ELSE RAdd(ExpectedContribution(Head(loads), span, width),
              ExpectedAdditional(Tail(loads), span, width))

\* the floor-beam loads other than the additional ones, from the stored inputs
FloorBaseLoadUsed ==
    RAdd(RAdd(RAdd(RInt(design_results.dead_load),
                   RInt(design_results.floor_cover_load * beam_width)),
              RInt(design_results.live_load * beam_width)),
         IF design_results.supported_beam_reaction > 0
         THEN Q(design_results.supported_beam_reaction, design_results.span)
         ELSE Zero)

\* C6: the additional loads enter the design with value / span (kN, kg), value
\* (kN/m, kg/m) and value * width (kN/m2, kg/m2), mass units times the
\* mass-to-force constant; the width is the tributary width (floor beam) or the
\* purlin spacing (purlin).  Read off the stored total load (floor beam) and the
\* stored shear of a uniform critical case (purlin).
C6_ContributionPerUnit ==
    Stored =>
        IF member = "FloorBeam"
        THEN RSub(design_results.total_load, FloorBaseLoadUsed) =
                ExpectedAdditional(additional_loads, design_results.span, RInt(beam_width))
        ELSE design_results.load_type = "uniform" =>
                RSub(RMul(design_results.shear, Q(2, design_results.span)),
                     OwnLoadOfCase(design_results.critical_case)) =
                ExpectedAdditional(additional_loads, design_results.span, purlin_spacing)

\* the total load of the floor beam with the reaction spread over the span
\* whatever its sign
FloorTotalWithReaction ==
    RAdd(RAdd(RAdd(RAdd(RInt(design_results.dead_load),
                        RInt(design_results.floor_cover_load * beam_width)),
                   RInt(design_results.live_load * beam_width)),
              Q(design_results.supported_beam_reaction, design_results.span)),
         ExpectedAdditional(additional_loads, design_results.span, RInt(beam_width)))

\* C7 as stated: moment = w L^2 / 8 and shear = w L / 2 with w = dead + cover *
\* width + live * width + reaction / L + the converted additional loads, for all
\* load inputs.
C7_AsStated ==
    (Stored /\ member = "FloorBeam") =>
        LET L == design_results.span
        IN  /\ design_results.moment = RMul(FloorTotalWithReaction, Q(L * L, 8))
            /\ design_results.shear = RMul(FloorTotalWithReaction, Q(L, 2))

\* C7 (amended): the same with reaction / L counted only when the reaction is
\* positive; a reaction <= 0 adds nothing.
C7_MomentShearOfTotalLoad ==
    (Stored /\ member = "FloorBeam") =>
        LET L == design_results.span
            w == RAdd(FloorBaseLoadUsed,
                      ExpectedAdditional(additional_loads, L, RInt(beam_width)))
        IN  /\ design_results.total_load = w
            /\ design_results.moment = RMul(w, Q(L * L, 8))
            /\ design_results.shear = RMul(w, Q(L, 2))

\* every term of w is present: reaction, cover, live and an additional load
C7_Witness ==
    /\ Stored
    /\ member = "FloorBeam"
    /\ design_results.supported_beam_reaction > 0
    /\ design_results.dead_load > 0
    /\ design_results.floor_cover_load > 0
    /\ design_results.live_load > 0
    /\ \E i \in 1..Len(additional_loads) : additional_loads[i].value > 0

AllLoadsZero ==
    /\ inputs.dead_load = 0
    /\ inputs.live_load = 0
    /\ IF member = "FloorBeam"
       THEN inputs.floor_cover_load = 0 /\ inputs.supported_beam_reaction = 0
       ELSE inputs.maintenance_load = 0 /\ inputs.wind_load = 0
    /\ \A i \in 1..Len(additional_loads) : additional_loads[i].value = 0

Errors == {"InvalidInput", "ZeroDivisionError"}

RatioOfMember == IF member = "FloorBeam" THEN 360 ELSE 240

InputsAtChordAngleZero == [inputs EXCEPT !.chord_angle = 0]

\* C11: the chord angle is an input of the LTB check: a stored result whose LTB
\* check could be determined, computed for a chord angle other than 0, has an
\* ltb_check other than the one the same form and loads give at chord angle 0.
C11_LtbDependsOnChordAngle ==
    (/\ Stored
     /\ inputs.chord_angle # 0
     /\ design_results.results.ltb_check.status # CannotDetermine) =>
        design_results.results.ltb_check #
            DesignResults(member, InputsAtChordAngleZero, additional_loads).results.ltb_check

\* C12: the input echo of a stored design_results is immutable: a script run
\* that is not a calculate_results (add_load, remove_load, an edit of a load)
\* leaves design_results['additional_loads'] as it was, so it stays the list the
\* calculation used until the next calculate_results.
C12_EchoImmutable ==
    [][(design_results # NoResults /\ outcome' = "none") =>
          EchoedLoads' = EchoedLoads]_vars

\* C13: calculate_results keeps no state between calls: whatever was calculated,
\* stored, added, removed or edited before, the design_results and load_diagrams
\* a completed calculation stores are the ones the current form and the current
\* additional loads give on their own.
C13_ResultOfCurrentInputsOnly ==
    Stored =>
        /\ design_results = DesignResults(member, inputs, additional_loads)
        /\ load_diagrams = LoadDiagrams(member, design_results)

\* a completed calculation in a session that added a load and edited its value
\* and unit before
C13_Witness ==
    /\ Stored
    /\ Len(additional_loads) = MaxLoads
    /\ additional_loads[1].value > 0
    /\ additional_loads[1].unit # NewLoad.unit

BendingAdequate(i) == Candidate(i).capacity_check.status = "Safe"

KindsOf(name) ==
    CASE name = "Dead + Live" -> {"dead", "live"}
      [] name = "Dead + Live + Wind" -> {"dead", "live", "wind"}
      [] name = "Maintenance (point load)" -> {"maintenance point"}
      [] name = "Dead + Live + Maintenance" -> {"dead", "live", "maintenance"}

\* the uniform load of exactly these kinds, from the loads of the stored run
UniformLoadOfKinds(kinds) ==
    LET pl == PurlinLoadsUsed
        part(kind, load) == IF kind \in kinds THEN load ELSE Zero
    IN  RAdd(RAdd(part("dead", pl.dead), part("live", pl.live)),
             RAdd(part("wind", pl.wind),
                  part("maintenance", RDiv(pl.maintenance, RInt(design_results.span)))))

Failures == Errors \cup {"PlotError"}

\* C16: a calculate_results that fails, at whatever step, leaves design_results
\* and load_diagrams as they were; the two change only in a calculation that
\* ran to its end, and then to the results and the diagrams of that calculation.
C16_StoredTogetherOrNotAtAll ==
    [][/\ outcome' \in Failures =>
             /\ design_results' = design_results
             /\ load_diagrams' = load_diagrams
       /\ (design_results' # design_results \/ load_diagrams' # load_diagrams) =>
             /\ outcome' = "stored"
             /\ design_results' = DesignResults(member, inputs', additional_loads')
             /\ load_diagrams' = LoadDiagrams(member, design_results')]_vars

\* a calculation that failed while drawing the diagrams, after one that stored
C16_Witness ==
    /\ outcome = "PlotError"
    /\ design_results # NoResults
    /\ design_results # DesignResults(member, inputs, additional_loads)

\* floor_beams.py:230  the script reaches "if calculate_clicked:" (an exception in
\* calculate_results ends the run before it) and enters the results section
RendersResults == calculate_clicked /\ outcome \notin Failures

\* C17: whenever the results section is rendered, design_results holds the
\* 'results' of a completed calculation, not the empty dict of the initial state.
C17_ClickedImpliesResults == RendersResults => design_results # NoResults

\* loads with entry i taken out and every other entry as it was, in order
WithoutEntry(loads, i) ==
    [j \in 1..(Len(loads) - 1) |-> IF j < i THEN loads[j] ELSE loads[j + 1]]

\* C18: the remove button of load i, with the rerun that follows, leaves the
\* list without exactly that entry, every other load with its own value, unit
\* and case in the original order; the Add Load button appends one entry
\* {value 0.0, unit kN, case Case A} and changes no existing entry.
C18_RemoveExactlyThatEntry ==
    [][/\ \A i \in 1..Len(additional_loads) :
             RemoveLoad(i) => additional_loads' = WithoutEntry(additional_loads, i)
       /\ AddLoad => additional_loads' =
                        additional_loads \o <<[value |-> 0, unit |-> "kN", case |-> "Case A"]>>]_vars

====
